---- MODULE Spec2Model ----
(***************************************************************************)
(* A model of src/main.py: the macro-indicator dashboard.                  *)
(*                                                                         *)
(* The persistent state is the Replit key-value store `db`.  Every handler *)
(* (Dash callback, Flask route, the weekly scheduler job) runs on a thread *)
(* and is modelled at the granularity of its store accesses, so that two   *)
(* threads interleave exactly where the code reads or writes db.           *)
(*                                                                         *)
(* Numbers: series values are integers (classify_value and the composite   *)
(* only use ratios of values, so a common scale factor is immaterial);     *)
(* weights are exact rationals <<numerator, denominator>> in lowest terms, *)
(* i.e. float rounding is not modelled.  Dates 'YYYY-MM' are month         *)
(* numbers: the string order of 'YYYY-MM' is the order of the months.      *)
(***************************************************************************)
EXTENDS Integers, Sequences, FiniteSets, TLC

VARIABLES
    db,         \* replit db: a function from the keys present to their values
    loc,        \* per thread: the running handler, its position and locals
    boot_list,  \* series_list as read when the module was imported (callback wiring)
    budget,     \* number of handler invocations the run may still start
    env,        \* what the provider and the store may do in this run
    cin,        \* arguments of the pending classify_value call
    cout        \* results of classify_value, per direction

vars == <<db, loc, boot_list, budget, env, cin, cout>>

(***************************************************************************)
(* Bounds of the model.                                                    *)
(***************************************************************************)
MaxOps == 3
MaxConcOps == 3
MaxWeightOps == 4

\* Two threads: the least that lets two handlers interleave.
Threads == {1, 2}
Ids == {"A", "B"}
Titles == {"T1", "T2"}
Directions == {"positive", "negative"}

Obs(d, v) == [date |-> d, value |-> v]
\* Datasets the provider may return (already monthly, sorted by date: main.py:146-148).
DataSets ==
    { <<Obs(1, 100), Obs(2, 100), Obs(3, 110)>>,
      <<Obs(2, 50), Obs(3, 45)>> }

(***************************************************************************)
(* The store.                                                              *)
(***************************************************************************)
K_series_list == <<"series_list">>
K_user_weights == <<"user_weights">>
K_months == <<"settings_months_back">>
K_series(sid) == <<"series_", sid>>

Has(d, k) == k \in DOMAIN d
Get(d, k, default) == IF k \in DOMAIN d THEN d[k] ELSE default
Put(d, k, v) == (k :> v) @@ d

EmptyDb == [k \in {} |-> 0]

\* The empty dict {} that db.get(key, {}) returns for a series key that is absent.
NoEntry == [present |-> FALSE, id |-> "", name |-> "", data |-> <<>>, direction |-> ""]
Entry(sid, name, data, direction) ==
    [present |-> TRUE, id |-> sid, name |-> name, data |-> data, direction |-> direction]

DEFAULT_MONTHS_BACK == 60
get_months_back(d) == Get(d, K_months, DEFAULT_MONTHS_BACK)

(***************************************************************************)
(* Thread-local state.                                                     *)
(***************************************************************************)
\* A value submitted for the months setting: a number, a text that int()
\* rejects, or nothing (None).
NumIn(n) == [kind |-> "int", n |-> n]
TextIn == [kind |-> "text", n |-> 0]
NoneIn == [kind |-> "none", n |-> 0]

NoDf == [kind |-> "None", rows |-> <<>>]
Frame(rows) == [kind |-> "frame", rows |-> rows]

Fresh(op) ==
    [ op |-> op, pc |-> "idle",
      sid |-> "", direction |-> "", df |-> NoDf,
      current_direction |-> "", name |-> "", existing_direction |-> "",
      entry |-> NoEntry, s_list |-> <<>>,
      series_list |-> <<>>, idx |-> 0, success_count |-> 0, attempts |-> <<>>,
      months |-> NoneIn,
      result |-> "none", ret |-> "none", resp |-> "none",
      overlapped |-> FALSE, ticket |-> 0 ]

Off == [Fresh("none") EXCEPT !.pc = "off"]
Idle == Fresh("none")

Running(t) == loc[t].pc \notin {"off", "idle", "done"}
CanStart(t) == loc[t].pc \in {"idle", "done"} /\ budget > 0

\* The order in which the handlers were started: the n-th gets ticket n.
Tickets == {loc[t].ticket : t \in Threads}
NextTicket == 1 + CHOOSE n \in Tickets : \A m \in Tickets : m <= n

\* A handler starts on thread t with fresh locals; `overlapped` records whether
\* another handler was running at any time during this one.
Begin(t, l) ==
    /\ CanStart(t)
    /\ budget' = budget - 1
    /\ loc' = [u \in Threads |->
                 IF u = t THEN [l EXCEPT !.overlapped = \E w \in Threads \ {t} : Running(w),
                                         !.ticket = NextTicket]
                 ELSE IF Running(u) THEN [loc[u] EXCEPT !.overlapped = TRUE]
                 ELSE loc[u]]

\* The handler returns: its locals die, what it was called with and what it
\* returned stay visible until the thread takes its next request.
Done(l, ret, resp) ==
    [Fresh(l.op) EXCEPT !.pc = "done", !.sid = l.sid, !.direction = l.direction,
                        !.series_list = l.series_list, !.attempts = l.attempts,
                        !.success_count = l.success_count, !.result = l.result,
                        !.months = l.months, !.df = l.df, !.ticket = l.ticket,
                        !.idx = l.idx,
                        !.ret = ret, !.resp = resp, !.overlapped = l.overlapped]

Set(t, l) == loc' = [loc EXCEPT ![t] = l]

(***************************************************************************)
(* External provider (FRED).                                               *)
(***************************************************************************)
\* fetch_series_monthly: None when anything raises, else the monthly frame,
\* which may be empty.
FetchResults == {NoDf, Frame(<<>>)} \cup {Frame(rows) : rows \in DataSets}

\* get_series_name: the title, or the id when the lookup raises.
get_series_name(series_id) ==
    (env.titles \cap Titles) \cup (IF "raise" \in env.titles THEN {series_id} ELSE {})

(***************************************************************************)
(* refresh_all_series: the loop over the list read at line 265.            *)
(***************************************************************************)
BatchOps ==
    {"scheduler_job", "refresh_all_button", "api_refresh_all",
     "update_months_back", "api_update_months_back"}

\* What each caller makes of the value refresh_all_series returned.
BatchResp(op, success) ==
    CASE op = "scheduler_job" -> "none"
      [] op = "refresh_all_button" ->
            IF success = "True" THEN "All series refreshed successfully."
            ELSE "Some series failed to refresh."
      [] op = "api_refresh_all" ->
            IF success = "True" THEN "200 All series refreshed"
            ELSE "400 Some series failed to refresh"
      [] op = "update_months_back" ->
            IF success = "True" THEN "Updated and refreshed all indicators."
            ELSE "Updated, but some indicators failed to refresh."
      [] OTHER -> "200 Updated"

\* Line 277: refresh_all_series returns True whatever the loop counted.
refresh_all_return(l) == "True"

ReturnFromBatch(l) ==
    LET r == refresh_all_return(l) IN Done(l, r, BatchResp(l.op, r))

\* Line 269: the next iteration of `for sid in series_list`, or the end of the loop.
LoopHead(l) ==
    IF l.idx <= Len(l.series_list)
    THEN [l EXCEPT !.sid = l.series_list[l.idx], !.pc = "rsd_224",
                   !.df = NoDf, !.current_direction = "", !.name = "",
                   !.existing_direction = "", !.s_list = <<>>]
    ELSE ReturnFromBatch(l)

\* Lines 270-271: refresh_series_data(sid) returned r inside the loop.
CountAttempt(l, r) ==
    [l EXCEPT !.attempts = Append(@, [sid |-> l.sid, ret |-> r, fetched |-> l.df]),
              !.success_count = IF r = "True" THEN @ + 1 ELSE @,
              !.idx = @ + 1]

\* refresh_series_data returns r to whoever called it.
ReturnFromRefresh(l, r) ==
    CASE l.op \in BatchOps -> LoopHead(CountAttempt(l, r))
      [] l.op = "add_series" -> [l EXCEPT !.result = r, !.pc = "as_1460"]
      [] OTHER -> \* api_add_series, lines 1573-1578
            Done([l EXCEPT !.result = r], r,
                 IF r = "True" THEN "200 Added" ELSE "400 Failed to add")

(***************************************************************************)
(* refresh_series_data and store_series_data, one store access per step.   *)
(***************************************************************************)
\* Lines 220-226 and 251-253: the two reads of the months setting only shape
\* the request sent to the provider; the provider's answer is the input.
fetch_ok_not_none(df) == df.kind # "None"

\* Line 226: df is not None and not df.empty.
fetch_ok(df) == df.kind # "None" /\ df.rows # <<>>

refresh_fetch(t) ==
    /\ loc[t].pc = "rsd_224"
    /\ \E df \in env.fetch :
          IF fetch_ok(df)
          THEN Set(t, [loc[t] EXCEPT !.df = df, !.pc = "rsd_232"])
          ELSE Set(t, ReturnFromRefresh([loc[t] EXCEPT !.df = df], "False"))
    /\ UNCHANGED <<db, boot_list, budget, env, cin, cout>>

\* Line 232: `if key in db`.
refresh_key_in_db(t) ==
    /\ loc[t].pc = "rsd_232"
    /\ IF Has(db, K_series(loc[t].sid))
       THEN Set(t, [loc[t] EXCEPT !.pc = "rsd_233"])
       ELSE Set(t, [loc[t] EXCEPT !.current_direction = "positive", !.pc = "ssd_175"])
    /\ UNCHANGED <<db, boot_list, budget, env, cin, cout>>

entry_direction_default(entry, default) == default

\* Lines 233-234: entry = db.get(key, {}); entry.get("direction", "positive").
entry_direction(entry, default) ==
    IF entry.present THEN entry.direction ELSE default

refresh_get_entry(t) ==
    /\ loc[t].pc = "rsd_233"
    /\ LET entry == Get(db, K_series(loc[t].sid), NoEntry) IN
       Set(t, [loc[t] EXCEPT !.current_direction = entry_direction(entry, "positive"),
                             !.pc = "ssd_175"])
    /\ UNCHANGED <<db, boot_list, budget, env, cin, cout>>

\* Lines 170-176: the title lookup, then existing_entry = db.get(key, {}) and
\* existing_direction = existing_entry.get("direction", direction).
store_get_existing(t) ==
    /\ loc[t].pc = "ssd_175"
    /\ \E name \in get_series_name(loc[t].sid) :
          LET existing_entry == Get(db, K_series(loc[t].sid), NoEntry) IN
          Set(t, [loc[t] EXCEPT
                    !.name = name,
                    !.existing_direction =
                        entry_direction(existing_entry, loc[t].current_direction),
                    !.pc = "ssd_178"])
    /\ UNCHANGED <<db, boot_list, budget, env, cin, cout>>

on_store_exception_escapes(l) == Done(l, "raise", "Error")

\* Lines 254-256: an exception raised while storing is caught; the refresh
\* returns False.
on_store_exception(l) == ReturnFromRefresh(l, "False")

\* Lines 178-183: the record written for the series.
new_record(l) == Entry(l.sid, l.name, l.df.rows, l.existing_direction)

\* Line 178: db[key] = {...}.  The write may raise; refresh_series_data's
\* except clause (lines 254-256) then returns False.
store_set_record(t) ==
    /\ loc[t].pc = "ssd_178"
    /\ \/ /\ db' = Put(db, K_series(loc[t].sid), new_record(loc[t]))
          /\ Set(t, [loc[t] EXCEPT !.pc = "ssd_185"])
       \/ /\ env.store_faults
          /\ db' = db
          /\ Set(t, on_store_exception(loc[t]))
    /\ UNCHANGED <<boot_list, budget, env, cin, cout>>

\* Line 185: `if "series_list" in db`.
store_list_in_db(t) ==
    /\ loc[t].pc = "ssd_185"
    /\ IF Has(db, K_series_list)
       THEN Set(t, [loc[t] EXCEPT !.pc = "ssd_186"])
       ELSE Set(t, [loc[t] EXCEPT !.s_list = <<loc[t].sid>>, !.pc = "ssd_189"])
    /\ UNCHANGED <<db, boot_list, budget, env, cin, cout>>

InList(x, s) == \E i \in 1..Len(s) : s[i] = x

\* Lines 186-188: s_list = db["series_list"]; append when the id is not in it.
\* Line 195 and 248-250: otherwise store_series_data and the refresh return True.
store_get_list(t) ==
    /\ loc[t].pc = "ssd_186"
    /\ LET s_list == db[K_series_list] IN
       IF ~InList(loc[t].sid, s_list)
       THEN Set(t, [loc[t] EXCEPT !.s_list = Append(s_list, loc[t].sid), !.pc = "ssd_189"])
       ELSE Set(t, ReturnFromRefresh(loc[t], "True"))
    /\ UNCHANGED <<db, boot_list, budget, env, cin, cout>>

\* Lines 189 and 192: db["series_list"] = s_list (or [series_id]); may raise.
store_set_list(t) ==
    /\ loc[t].pc = "ssd_189"
    /\ \/ /\ db' = Put(db, K_series_list, loc[t].s_list)
          /\ Set(t, ReturnFromRefresh(loc[t], "True"))
       \/ /\ env.store_faults
          /\ db' = db
          /\ Set(t, on_store_exception(loc[t]))
    /\ UNCHANGED <<boot_list, budget, env, cin, cout>>

\* add_series, lines 1460-1465: the message depends on the record being there.
add_series_check(t) ==
    /\ loc[t].pc = "as_1460"
    /\ Set(t, Done(loc[t], loc[t].result,
                   IF Has(db, K_series(loc[t].sid)) THEN "Added" ELSE "Failed to add series"))
    /\ UNCHANGED <<db, boot_list, budget, env, cin, cout>>

\* add_series (Dash, line 1448) and api_add_series (line 1563) with a non-empty id.
StartAddSeries(t, op, sid) ==
    /\ Begin(t, [Fresh(op) EXCEPT !.sid = sid, !.pc = "rsd_224"])
    /\ UNCHANGED <<db, boot_list, env, cin, cout>>

(***************************************************************************)
(* update_series_direction.                                                *)
(***************************************************************************)
DirectionResp(op, ret) ==
    CASE op = "update_direction" -> "Updated direction"
      [] ret = "True" -> "200 Updated direction"
      [] OTHER -> "400 Failed to update direction"

\* update_direction (Dash, line 1088): the toggles are wired at import time for
\* the series listed then.  api_update_direction (line 1618): any id.
StartUpdateDirection(t, op, sid, direction) ==
    /\ op = "update_direction" => InList(sid, boot_list)
    /\ Begin(t, [Fresh(op) EXCEPT !.sid = sid, !.direction = direction, !.pc = "usd_204"])
    /\ UNCHANGED <<db, boot_list, env, cin, cout>>

\* Line 204: `if key in db`; lines 210-212 return False.
direction_key_in_db(t) ==
    /\ loc[t].pc = "usd_204"
    /\ IF Has(db, K_series(loc[t].sid))
       THEN Set(t, [loc[t] EXCEPT !.pc = "usd_205"])
       ELSE Set(t, Done(loc[t], "False", DirectionResp(loc[t].op, "False")))
    /\ UNCHANGED <<db, boot_list, budget, env, cin, cout>>

with_direction_unset(entry, direction) == entry

with_direction_fresh_name(entry, direction) ==
    [entry EXCEPT !.direction = direction, !.name = entry.id]

\* Lines 205-206: entry = db[key]; entry["direction"] = direction.
with_direction(entry, direction) == [entry EXCEPT !.direction = direction]

direction_get_entry(t) ==
    /\ loc[t].pc = "usd_205"
    /\ Set(t, [loc[t] EXCEPT
                 !.entry = with_direction(db[K_series(loc[t].sid)], loc[t].direction),
                 !.pc = "usd_207"])
    /\ UNCHANGED <<db, boot_list, budget, env, cin, cout>>

\* Line 207: db[key] = entry; a raise reaches the handler's except clause.
direction_set_entry(t) ==
    /\ loc[t].pc = "usd_207"
    /\ \/ /\ db' = Put(db, K_series(loc[t].sid), loc[t].entry)
          /\ Set(t, Done(loc[t], "True", DirectionResp(loc[t].op, "True")))
       \/ /\ env.store_faults
          /\ db' = db
          /\ Set(t, Done(loc[t], "raise", "Error"))
    /\ UNCHANGED <<boot_list, budget, env, cin, cout>>

(***************************************************************************)
(* refresh_all_series and its callers.                                     *)
(***************************************************************************)
\* scheduler_job (line 283, on the one scheduler thread), refresh_all_button
\* (line 1475) and api_refresh_all (line 1585) call refresh_all_series.
StartRefreshAll(t, op) ==
    /\ op = "scheduler_job" =>
          \A u \in Threads : ~(Running(u) /\ loc[u].op = "scheduler_job")
    /\ Begin(t, [Fresh(op) EXCEPT !.pc = "ras_264"])
    /\ UNCHANGED <<db, boot_list, env, cin, cout>>

\* Line 264: `if "series_list" in db`, else lines 275-277.
refresh_all_list_in_db(t) ==
    /\ loc[t].pc = "ras_264"
    /\ IF Has(db, K_series_list)
       THEN Set(t, [loc[t] EXCEPT !.pc = "ras_265"])
       ELSE Set(t, ReturnFromBatch(loc[t]))
    /\ UNCHANGED <<db, boot_list, budget, env, cin, cout>>

\* Lines 265-269: series_list = db["series_list"]; success_count = 0; first iteration.
refresh_all_get_list(t) ==
    /\ loc[t].pc = "ras_265"
    /\ Set(t, LoopHead([loc[t] EXCEPT !.series_list = db[K_series_list],
                                      !.success_count = 0, !.idx = 1]))
    /\ UNCHANGED <<db, boot_list, budget, env, cin, cout>>

(***************************************************************************)
(* set_months_back and the two handlers that call it.                      *)
(***************************************************************************)
MonthInputs == {NoneIn, TextIn} \cup {NumIn(n) : n \in -1..2}

clamp_months_missing(n) == n

\* Lines 28-30: value = int(value); if value < 1: value = 1.
clamp_months(n) == IF n < 1 THEN 1 ELSE n

\* Line 1058 `if not new_value` and line 1604 `if not months_back or months_back < 1`
\* (comparing a text with 1 raises TypeError, answered 500).
MonthsRejected(op, v) ==
    CASE op = "update_months_back" ->
            IF v.kind = "none" \/ (v.kind = "int" /\ v.n = 0)
            THEN "Please enter a valid number of months." ELSE "pass"
      [] OTHER ->
            IF v.kind = "none" \/ (v.kind = "int" /\ v.n < 1) THEN "400 Invalid months_back value"
            ELSE IF v.kind = "text" THEN "500" ELSE "pass"

MonthsFailed(op) ==
    IF op = "update_months_back" THEN "Failed to update months setting."
    ELSE "400 Failed to update months setting"

\* update_months_back (Dash, line 1056) and api_update_months_back (line 1598):
\* validation, then set_months_back (lines 25-34), whose bare except turns a
\* failed int() or a failed store write into False.
StartUpdateMonths(t, op, v) ==
    /\ CanStart(t)
    /\ budget' = budget - 1
    /\ LET l == [Fresh(op) EXCEPT !.months = v, !.ticket = NextTicket] IN
       IF MonthsRejected(op, v) # "pass"
       THEN /\ db' = db
            /\ Set(t, Done(l, "none", MonthsRejected(op, v)))
       ELSE IF v.kind # "int"
       THEN /\ db' = db
            /\ Set(t, Done([l EXCEPT !.result = "False"], "none", MonthsFailed(op)))
       ELSE \/ /\ db' = Put(db, K_months, clamp_months(v.n))
               /\ Set(t, [l EXCEPT !.result = "True",
                                   !.pc = IF op = "update_months_back"
                                          THEN "umb_1066" ELSE "ras_264"])
            \/ /\ env.store_faults
               /\ db' = db
               /\ Set(t, Done([l EXCEPT !.result = "False"], "none", MonthsFailed(op)))
    /\ UNCHANGED <<boot_list, env, cin, cout>>

\* Line 1066: `if "series_list" in db` before refresh_all_series; line 1072 otherwise.
months_list_in_db(t) ==
    /\ loc[t].pc = "umb_1066"
    /\ IF Has(db, K_series_list)
       THEN Set(t, [loc[t] EXCEPT !.pc = "ras_264"])
       ELSE Set(t, Done(loc[t], "none", "Updated."))
    /\ UNCHANGED <<db, boot_list, budget, env, cin, cout>>

(***************************************************************************)
(* Weights.  A weight is an exact rational <<numerator, denominator>>.     *)
(***************************************************************************)
Abs(n) == IF n < 0 THEN -n ELSE n

RECURSIVE GCD(_, _)
GCD(a, b) == IF b = 0 THEN a ELSE GCD(b, a % b)

\* n/d for d > 0, in lowest terms.
Frac(n, d) == LET g == GCD(Abs(n), d) IN <<n \div g, d \div g>>

RAdd(a, b) == Frac(a[1] * b[2] + b[1] * a[2], a[2] * b[2])
RMul(a, b) == Frac(a[1] * b[1], a[2] * b[2])
RLess(a, b) == a[1] * b[2] < b[1] * a[2]
Zero == <<0, 1>>
One == <<1, 1>>

RECURSIVE SumSeq(_)
SumSeq(s) == IF s = <<>> THEN Zero ELSE RAdd(Head(s), SumSeq(Tail(s)))

RECURSIVE SumOver(_, _)
SumOver(f, keys) ==
    IF keys = {} THEN Zero
    ELSE LET k == CHOOSE x \in keys : TRUE IN RAdd(f[k], SumOver(f, keys \ {k}))

\* sum(weights.values())
SumValues(f) == SumOver(f, DOMAIN f)

EmptyMap == [k \in {} |-> Zero]

load_weights(d) == Get(d, K_user_weights, EmptyMap)

equal_weights_undivided(series_list) ==
    [sid \in {series_list[i] : i \in 1..Len(series_list)} |-> One]

\* {sid: 1.0 / len(series_list) for sid in series_list}
equal_weights(series_list) ==
    [sid \in {series_list[i] : i \in 1..Len(series_list)} |-> Frac(1, Len(series_list))]

Min(a, b) == IF a < b THEN a ELSE b

\* Lines 1415-1417: new_wdict[sid] = wv over zip(series_list, weight_values);
\* a later pair with the same id overwrites an earlier one.
zip_dict(series_list, weight_values) ==
    LET n == Min(Len(series_list), Len(weight_values)) IN
    [sid \in {series_list[i] : i \in 1..n} |->
        weight_values[CHOOSE i \in 1..n :
                         /\ series_list[i] = sid
                         /\ \A j \in (i + 1)..n : series_list[j] # sid]]

\* What a weight input field or a JSON weight may hold.
RawWeights == {-1, 0, 2}
NoneWeight == [none |-> TRUE, v |-> 0]
NumWeight(n) == [none |-> FALSE, v |-> n]
DashWeightInputs == {NoneWeight} \cup {NumWeight(n) : n \in RawWeights}

\* Line 1407: float(wv) if wv is not None else 0.
to_float(wv) == IF wv.none THEN Zero ELSE <<wv.v, 1>>

\* Lines 1407-1413: divide by the sum when it is > 0, else equal weights.
normalize_dash(series_list, weight_values) ==
    LET vals == [i \in 1..Len(weight_values) |-> to_float(weight_values[i])]
        s == SumSeq(vals)
    IN  IF RLess(Zero, s)
        THEN [i \in 1..Len(vals) |-> RMul(vals[i], <<s[2], s[1]>>)]
        ELSE [i \in 1..Len(series_list) |-> Frac(1, Len(series_list))]

\* Lines 1706-1709: divide by the total when it is > 0, else leave as submitted.
normalize_api(weights) ==
    LET total == SumValues(weights) IN
    IF RLess(Zero, total)
    THEN [k \in DOMAIN weights |-> RMul(weights[k], <<total[2], total[1]>>)]
    ELSE weights

(***************************************************************************)
(* classify_value (lines 54-107).  A colour is the tuple of the tokens of  *)
(* the string returned: <<"#6c757d">>, or <<"rgb", r, g, b>> for           *)
(* "rgb(r, g, b)".  The arithmetic is exact (rational), where the code     *)
(* uses floats.                                                            *)
(***************************************************************************)
GREY == <<"#6c757d">>

NonePrev == [none |-> TRUE, v |-> 0]
Prev(v) == [none |-> FALSE, v |-> v]

\* Line 61: prev_value is None or prev_value == 0.
no_baseline(prev_value) == prev_value.none \/ prev_value.v = 0

UP_THRESHOLD_INV == 10000
below_or_at_threshold(num, den) == Abs(num) * UP_THRESHOLD_INV <= den

\* Line 68: abs(change) < up_threshold, with change = num / den, den > 0 and
\* up_threshold = 0.0001 = 1 / UP_THRESHOLD_INV.
below_threshold(num, den) == Abs(num) * UP_THRESHOLD_INV < den

is_good_change_any_direction(num, direction) == num > 0

\* Line 72.
is_good_change(num, direction) ==
    (num > 0 /\ direction = "positive") \/ (num < 0 /\ direction = "negative")

\* Lines 76-77: capped at +-5% = 1 / CAP_INV, then abs(capped) / 0.05 in [0, 1].
CAP_INV == 20
intensity(num, den) ==
    IF Abs(num) * CAP_INV >= den THEN One ELSE Frac(Abs(num) * CAP_INV, den)

\* Lines 87 and 101: intensity * intensity * (3.0 - 2.0 * intensity).
smoothstep(i) == Frac(i[1] * i[1] * (3 * i[2] - 2 * i[1]), i[2] * i[2] * i[2])

\* Lines 89-91 and 103-105: int(start + (end - start) * smooth_intensity).  The
\* value is positive, so int() is the floor, and start is a whole number.
channel(start, end, s) == start + ((end - start) * s[1]) \div s[2]

\* Lines 83-84 and 97-98: the end points of the two ramps.
GreenStart == <<144, 238, 144>>
GreenEnd == <<34, 139, 34>>
RedStart == <<200, 200, 200>>
RedEnd == <<180, 30, 30>>

ramp(from, to, s) ==
    <<"rgb", channel(from[1], to[1], s), channel(from[2], to[2], s),
             channel(from[3], to[3], s)>>

classify_value(value, prev_value, direction) ==
    IF no_baseline(prev_value) THEN GREY
    ELSE LET num == value - prev_value.v
             den == Abs(prev_value.v)
         IN  IF below_threshold(num, den) THEN GREY
             ELSE LET s == smoothstep(intensity(num, den)) IN
                  IF is_good_change(num, direction)
                  THEN ramp(GreenStart, GreenEnd, s)
                  ELSE ramp(RedStart, RedEnd, s)

\* The calls of classify_value that are tried: no baseline, a zero baseline,
\* no change, a change below, at and above the threshold, below and above
\* the 5% cap, of either sign, from a positive and from a negative baseline.
ClassifyValues == {-200, -100, 0, 50, 55, 100, 104, 110, 10000, 10001, 20000, 20001}
ClassifyInputs ==
    {[value |-> v, prev_value |-> p] :
        v \in ClassifyValues, p \in {NonePrev} \cup {Prev(x) : x \in ClassifyValues}}

PENDING == <<"pending">>

\* A new pair (value, prev_value) to classify.
NewCall ==
    /\ cin' \in ClassifyInputs
    /\ cout' = [d \in Directions |-> PENDING]
    /\ UNCHANGED <<db, loc, boot_list, budget, env>>

\* classify_value(value, prev_value, direction) is called.
Classify(direction) ==
    /\ cout[direction] = PENDING
    /\ cout' = [cout EXCEPT ![direction] = classify_value(cin.value, cin.prev_value, direction)]
    /\ UNCHANGED <<db, loc, boot_list, budget, env, cin>>

InitClassify ==
    /\ db = EmptyDb
    /\ boot_list = <<>>
    /\ loc = [t \in Threads |-> Idle]
    /\ budget = 0
    /\ env = [fetch |-> {}, titles |-> {}, store_faults |-> FALSE]
    /\ cin \in ClassifyInputs
    /\ cout = [d \in Directions |-> PENDING]

NextClassify ==
    \/ NewCall
    \/ \E direction \in Directions : Classify(direction)

(***************************************************************************)
(* The read-only queries: get_monthly_classifications (lines 294-321) and  *)
(* get_composite_df (lines 350-419), computed on the store as it is.       *)
(***************************************************************************)
\* Line 318: the colour of the first entry in the window.
NAMED_GREY == <<"grey">>

Range(s) == {s[i] : i \in 1..Len(s)}
Dates(data) == {r.date : r \in Range(data)}

RECURSIVE SortedAsc(_)
SortedAsc(S) ==
    IF S = {} THEN <<>>
    ELSE LET m == CHOOSE x \in S : \A y \in S : x <= y
         IN  <<m>> \o SortedAsc(S \ {m})

unsorted(data) == data

\* sorted(data, key=lambda x: x["date"]) (line 307), df.sort_values("date")
\* (lines 335, 413); a series has one record per month (line 146).
sort_by_date(data) ==
    LET ds == SortedAsc(Dates(data))
    IN  [i \in 1..Len(ds) |-> CHOOSE r \in Range(data) : r.date = ds[i]]

slice_from_start(s, n) ==
    IF n > 0 THEN SubSeq(s, 1, IF Len(s) > n THEN n ELSE Len(s)) ELSE s

\* The Python slice s[-n:]: the last n items for n > 0 (all when there are
\* fewer), everything for n = 0, all but the first -n for n < 0.
slice_from_end(s, n) ==
    IF n > 0 THEN (IF Len(s) > n THEN SubSeq(s, Len(s) - n + 1, Len(s)) ELSE s)
    ELSE IF n = 0 THEN s
    ELSE SubSeq(s, 1 - n, Len(s))

classification_prev_lost(window, i, direction) == NAMED_GREY

\* Lines 311-320: the colour of the i-th record of the window; prev_value is
\* the value of the record before it in the window, None for the first.
classification_at(window, i, direction) ==
    IF i = 1 THEN NAMED_GREY
    ELSE classify_value(window[i].value, Prev(window[i - 1].value), direction)

get_monthly_classifications(d, series_id) ==
    LET entry == Get(d, K_series(series_id), NoEntry) IN
    IF ~entry.present THEN <<>>
    ELSE LET direction == entry_direction(entry, "positive")
             data == sort_by_date(entry.data)
             window == slice_from_end(data, get_months_back(d))
         IN  [i \in 1..Len(window) |->
                 [month |-> window[i].date,
                  c |-> classification_at(window, i, direction)]]

\* get_indicator_df (lines 326-336): the stored records in date order; the
\* empty frame when there is no record.
get_indicator_df(d, series_id) ==
    LET entry == Get(d, K_series(series_id), NoEntry) IN
    IF ~entry.present THEN <<>> ELSE sort_by_date(entry.data)

rebase_signed(v, first_val) ==
    IF first_val > 0 THEN Frac(v - first_val, first_val)
    ELSE Frac(first_val - v, -first_val)

\* (df['value'] - first_val) / abs(first_val), for first_val # 0.
rebase(v, first_val) == Frac(v - first_val, Abs(first_val))

identity_adjusted_any_direction(v, direction) == <<v, 1>>

\* Lines 379 and 386: first_val == 0.
identity_adjusted(v, direction) ==
    IF direction = "negative" THEN <<-v, 1>> ELSE <<v, 1>>

adjusted_value_not_rebased(v, first_val, direction) ==
    IF direction = "negative" THEN <<-v, 1>> ELSE <<v, 1>>

\* Lines 371-386: df['adjusted_value'].
adjusted_value(v, first_val, direction) ==
    IF first_val # 0
    THEN IF direction = "negative"
         THEN RAdd(RMul(rebase(v, first_val), <<-1, 1>>), One)
         ELSE RAdd(rebase(v, first_val), One)
    ELSE identity_adjusted(v, direction)

\* Lines 361-390: the frame [date, sid] of a series that has data.
adjusted_df(d, sid) ==
    LET df == get_indicator_df(d, sid)
        direction == entry_direction(Get(d, K_series(sid), NoEntry), "positive")
        first_val == df[1].value
    IN  [i \in 1..Len(df) |->
            [date |-> df[i].date,
             value |-> adjusted_value(df[i].value, first_val, direction)]]

\* A cell of the merged table that no observation fills.
NaN == <<"NaN">>

\* Lines 360-363: the ids of weights_dict whose frame is not empty.
with_data(d, weights_dict) ==
    {sid \in DOMAIN weights_dict : get_indicator_df(d, sid) # <<>>}

\* Lines 392-395: pd.merge(combined_df, df, on="date", how="outer"), one
\* column per series.  An outer merge returns its keys in sorted order (the
\* pandas that knows the "ME" alias of line 146 does), so the rows are in
\* date order whichever series comes first.
merge_outer(d, sids) ==
    LET dates == SortedAsc(UNION {Dates(get_indicator_df(d, sid)) : sid \in sids})
    IN  [i \in 1..Len(dates) |->
            [date |-> dates[i],
             cols |-> [sid \in sids |->
                         LET df == adjusted_df(d, sid) IN
                         IF dates[i] \in Dates(df)
                         THEN (CHOOSE r \in Range(df) : r.date = dates[i]).value
                         ELSE NaN]]]

fill_nothing(cell, above) == cell

\* ffill() on one cell: a NaN takes the value of the row above.
fill_from_above(cell, above) == IF cell = NaN THEN above ELSE cell

\* Line 401, ffill(), from the first row down.
RECURSIVE ffill(_)
ffill(rows) ==
    IF Len(rows) <= 1 THEN rows
    ELSE LET filled == ffill(SubSeq(rows, 1, Len(rows) - 1))
             above == filled[Len(filled)]
             last == rows[Len(rows)]
         IN  Append(filled,
                    [last EXCEPT !.cols =
                        [sid \in DOMAIN last.cols |->
                            fill_from_above(last.cols[sid], above.cols[sid])]])

\* Line 401, fillna(0).
fillna(rows, v) ==
    [i \in 1..Len(rows) |->
        [rows[i] EXCEPT !.cols =
            [sid \in DOMAIN rows[i].cols |->
                IF rows[i].cols[sid] = NaN THEN v ELSE rows[i].cols[sid]]]]

row_get_default(row, sid, default) ==
    IF sid = "date" THEN row.date
    ELSE IF sid \in DOMAIN row.cols THEN row.cols[sid] ELSE One

\* Line 408: row.get(sid, 0) on a row indexed by "date" and the ids merged.
row_get(row, sid, default) ==
    IF sid = "date" THEN row.date
    ELSE IF sid \in DOMAIN row.cols THEN row.cols[sid] ELSE default

\* Lines 357-358 and 397-398: the empty frame is returned for an empty
\* weights_dict and when no id of it has data (combined_df is None).
nothing_to_combine(d, weights_dict) == with_data(d, weights_dict) = {}

\* Lines 408-409 with the key "date" in weights_dict, once there is a row:
\* val is the date text of the row, val * w is a TypeError for a float w and
\* a text for an int w, and adding a text to the number total is a TypeError.
sum_raises(d, weights_dict) ==
    ~nothing_to_combine(d, weights_dict) /\ "date" \in DOMAIN weights_dict

\* Lines 406-410: total += val * w over weights_dict.
weighted_sum(row, weights_dict) ==
    SumOver([sid \in DOMAIN weights_dict |->
                RMul(row_get(row, sid, Zero), weights_dict[sid])],
            DOMAIN weights_dict)

\* get_composite_df: the adjusted frames, the merged and filled table (line
\* 401), whether the weighted sum raised, and the frame returned if not.
get_composite_df(d, weights_dict) ==
    LET sids == with_data(d, weights_dict)
        combined_df == fillna(ffill(merge_outer(d, sids)), Zero)
        composite == sort_by_date(
            [i \in 1..Len(combined_df) |->
                [date |-> combined_df[i].date,
                 composite_value |-> weighted_sum(combined_df[i], weights_dict)]])
        months_back == get_months_back(d)
    IN  [adjusted |-> [sid \in sids |-> adjusted_df(d, sid)],
         combined |-> combined_df,
         raised |-> sum_raises(d, weights_dict),
         result |-> IF sum_raises(d, weights_dict) THEN <<>>
                    ELSE IF Len(composite) > months_back
                    THEN slice_from_end(composite, months_back)
                    ELSE composite]

\* What a handler answers: ret is "raise" when an exception leaves it.
Replied(resp) == [ret |-> "none", resp |-> resp]
Raised == [ret |-> "raise", resp |-> "none"]

\* save_weights (line 348) and what follows it; the write may raise.
SaveWeights(t, l, new_weights, ok, failed) ==
    \/ /\ db' = Put(db, K_user_weights, new_weights)
       /\ Set(t, Done(l, ok.ret, ok.resp))
    \/ /\ env.store_faults
       /\ db' = db
       /\ Set(t, Done(l, failed.ret, failed.resp))

\* Lines 1328-1330 (and 1361, 1387, 1420): comp_df = get_composite_df(weights),
\* outside any try, then the message for an empty or a charted frame.  The
\* frame returned is empty only when there was nothing to combine: a stored
\* series has a row and the window keeps at least one.
composite_view(d, weights, shown, no_data) ==
    IF sum_raises(d, weights) THEN Raised
    ELSE IF nothing_to_combine(d, weights) THEN Replied(no_data)
    ELSE Replied(shown)

\* Lines 1652 and 1695-1697: the same call inside the try of api_composite.
api_composite_view(d, weights) ==
    IF sum_raises(d, weights) THEN Replied("500") ELSE Replied("200")

\* The tuples of values the wired weight inputs may hold: one per series
\* listed when the callbacks were registered (line 1299).
RECURSIVE Tuples(_, _)
Tuples(S, n) ==
    IF n = 0 THEN {<<>>}
    ELSE {Append(s, x) : s \in Tuples(S, n - 1), x \in S}

\* update_composite on /composite (Dash, line 1301): page load (no trigger or
\* the url), 'Reset to Equal Weights', 'Apply & Save Weights'.
UpdateComposite(t, trigger, weight_values) ==
    /\ CanStart(t)
    /\ budget' = budget - 1
    /\ LET series_list == Get(db, K_series_list, <<>>)
           l == [Fresh("update_composite") EXCEPT !.ticket = NextTicket]
       IN
       IF series_list = <<>>
       THEN db' = db /\ Set(t, Done(l, "none", "No series found to weight."))
       ELSE IF trigger \in {"none", "url"}
       THEN LET view(w) == composite_view(db, w, "", "No data to display in composite.")
            IN  IF load_weights(db) = EmptyMap
                THEN SaveWeights(t, l, equal_weights(series_list),
                                 view(equal_weights(series_list)), Raised)
                ELSE LET out == view(load_weights(db))
                     IN  db' = db /\ Set(t, Done(l, out.ret, out.resp))
       ELSE IF trigger = "reset-weights-btn"
       THEN SaveWeights(t, l, equal_weights(series_list),
                        composite_view(db, equal_weights(series_list),
                                       "Weights reset to equal values.",
                                       "Weights reset to equal. (No data available)"),
                        Raised)
       ELSE LET new_wdict == zip_dict(series_list,
                                      normalize_dash(series_list, weight_values))
            IN  SaveWeights(t, l, new_wdict,
                            composite_view(db, new_wdict,
                                           "Weights saved successfully.",
                                           "Weights saved. (No data available)"),
                            Raised)
    /\ UNCHANGED <<boot_list, env, cin, cout>>

\* api_composite (line 1639): equal weights are stored when none are.
ApiComposite(t) ==
    /\ CanStart(t)
    /\ budget' = budget - 1
    /\ LET series_list == Get(db, K_series_list, <<>>)
           l == [Fresh("api_composite") EXCEPT !.ticket = NextTicket]
       IN
       IF load_weights(db) = EmptyMap /\ series_list # <<>>
       THEN SaveWeights(t, l, equal_weights(series_list),
                        api_composite_view(db, equal_weights(series_list)),
                        Replied("500"))
       ELSE db' = db /\ Set(t, Done(l, "none", api_composite_view(db, load_weights(db)).resp))
    /\ UNCHANGED <<boot_list, env, cin, cout>>

\* The JSON weight maps a client may post: any keys, tracked ids or not,
\* the name of the date column among them.
WeightKeys == Ids \cup {"X"}
ApiWeightInputs ==
    UNION {[K -> {<<n, 1>> : n \in RawWeights}] : K \in SUBSET WeightKeys}
    \cup {[k \in {"A", "date"} |-> <<2, 1>>], [k \in {"date"} |-> <<2, 1>>]}

\* api_save_weights (line 1700).
ApiSaveWeights(t, weights) ==
    /\ CanStart(t)
    /\ budget' = budget - 1
    /\ SaveWeights(t, [Fresh("api_save_weights") EXCEPT !.ticket = NextTicket],
                   normalize_api(weights),
                   Replied("200 Weights saved"), Replied("500"))
    /\ UNCHANGED <<boot_list, env, cin, cout>>

\* api_reset_weights (line 1719).
ApiResetWeights(t) ==
    /\ CanStart(t)
    /\ budget' = budget - 1
    /\ LET series_list == Get(db, K_series_list, <<>>)
           l == [Fresh("api_reset_weights") EXCEPT !.ticket = NextTicket]
       IN
       IF series_list # <<>>
       THEN SaveWeights(t, l, equal_weights(series_list),
                        Replied("200 Weights reset to equal"), Replied("500"))
       ELSE db' = db /\ Set(t, Done(l, "none", "200 Weights reset to equal"))
    /\ UNCHANGED <<boot_list, env, cin, cout>>

\* The process is restarted: the module is imported again and the callbacks
\* are wired for the series listed in the store now (lines 1084, 1299).
Restart ==
    /\ budget > 0
    /\ \A t \in Threads : ~Running(t)
    /\ boot_list # Get(db, K_series_list, <<>>)
    /\ boot_list' = Get(db, K_series_list, <<>>)
    /\ loc' = [t \in Threads |-> IF loc[t].pc = "off" THEN Off ELSE Idle]
    /\ budget' = budget - 1
    /\ UNCHANGED <<db, env, cin, cout>>

InitStore ==
    /\ db = EmptyDb
    /\ boot_list = <<>>
    /\ cin = [value |-> 0, prev_value |-> NonePrev]
    /\ cout = [d \in Directions |-> PENDING]

\* Requests are served one at a time; the provider may fail, return an empty
\* or a different dataset or title, and a store write may raise.
Init ==
    /\ InitStore
    /\ loc = [t \in Threads |-> IF t = 1 THEN Idle ELSE Off]
    /\ budget = MaxOps
    /\ env = [fetch |-> FetchResults, titles |-> Titles \cup {"raise"}, store_faults |-> TRUE]

\* The scheduler thread and the threaded server run handlers concurrently; the
\* provider and the store answer every call (one title, no failed write).
InitConc ==
    /\ InitStore
    /\ loc = [t \in Threads |-> Idle]
    /\ budget = MaxConcOps
    /\ env = [fetch |-> {Frame(rows) : rows \in DataSets}, titles |-> {"T1"},
              store_faults |-> FALSE]

\* The store accesses of the data functions (lines 159-277).
StoreStep(t) ==
    \/ refresh_fetch(t)
    \/ refresh_key_in_db(t)
    \/ refresh_get_entry(t)
    \/ store_get_existing(t)
    \/ store_set_record(t)
    \/ store_list_in_db(t)
    \/ store_get_list(t)
    \/ store_set_list(t)
    \/ direction_key_in_db(t)
    \/ direction_get_entry(t)
    \/ direction_set_entry(t)
    \/ refresh_all_list_in_db(t)
    \/ refresh_all_get_list(t)

\* ... and those the Dash callbacks make themselves.
Step(t) ==
    \/ StoreStep(t)
    \/ add_series_check(t)
    \/ months_list_in_db(t)

\* The handlers whose store accesses interleave: POST /api/add-series,
\* POST /api/update-direction, POST /api/refresh-all and the scheduler's job.
NextConc ==
    \E t \in Threads :
        \/ \E sid \in Ids : StartAddSeries(t, "api_add_series", sid)
        \/ \E sid \in Ids, d \in Directions :
              StartUpdateDirection(t, "api_update_direction", sid, d)
        \/ \E op \in {"scheduler_job", "api_refresh_all"} : StartRefreshAll(t, op)
        \/ StoreStep(t)

\* The values the wired weight inputs hold matter to the save button only.
WeightValuesFor(trigger) ==
    IF trigger = "save-weights-btn" THEN Tuples(DashWeightInputs, Len(boot_list))
    ELSE {<<>>}

Next ==
    \E t \in Threads :
        \/ \E op \in {"add_series", "api_add_series"}, sid \in Ids : StartAddSeries(t, op, sid)
        \/ \E op \in {"update_direction", "api_update_direction"}, sid \in Ids, d \in Directions :
              StartUpdateDirection(t, op, sid, d)
        \/ \E op \in {"refresh_all_button", "api_refresh_all"} : StartRefreshAll(t, op)
        \/ \E op \in {"update_months_back", "api_update_months_back"}, v \in MonthInputs :
              StartUpdateMonths(t, op, v)
        \/ ApiComposite(t)
        \/ Restart
        \/ Step(t)

\* Every handler, with a provider that always answers the same.
NextWeights ==
    \E t \in Threads :
        \/ \E sid \in Ids : StartAddSeries(t, "add_series", sid)
        \/ \E sid \in Ids, d \in Directions :
              StartUpdateDirection(t, "api_update_direction", sid, d)
        \/ StartRefreshAll(t, "refresh_all_button")
        \/ \E v \in MonthInputs : StartUpdateMonths(t, "update_months_back", v)
        \/ \E trigger \in {"none", "url", "reset-weights-btn", "save-weights-btn"} :
              \E weight_values \in WeightValuesFor(trigger) :
                 UpdateComposite(t, trigger, weight_values)
        \/ ApiComposite(t)
        \/ \E weights \in ApiWeightInputs : ApiSaveWeights(t, weights)
        \/ ApiResetWeights(t)
        \/ Restart
        \/ Step(t)

InitWeights ==
    /\ InitStore
    /\ loc = [t \in Threads |-> IF t = 1 THEN Idle ELSE Off]
    /\ budget = MaxWeightOps
    /\ env = [fetch |-> {Frame(<<Obs(1, 100), Obs(2, 100), Obs(3, 110)>>)},
              titles |-> {"T1"}, store_faults |-> FALSE]

Spec == Init /\ [][Next]_vars
SpecConc == InitConc /\ [][NextConc]_vars
SpecWeights == InitWeights /\ [][NextWeights]_vars
SpecClassify == InitClassify /\ [][NextClassify]_vars

\* The stored observation lists the queries are tried on: the provider's
\* frames (in date order), with a zero and with a negative first value, with
\* a month missing, and one list out of date order (the store is external
\* and the queries sort what they read).
QueryData ==
    { <<Obs(1, 100), Obs(2, 100), Obs(3, 110)>>,
      <<Obs(2, 100), Obs(3, 110)>>,
      <<Obs(2, 50), Obs(3, 45)>>,
      <<Obs(1, 0), Obs(3, 5)>>,
      <<Obs(2, -50), Obs(4, -40)>>,
      <<Obs(3, 110), Obs(1, 100), Obs(2, 100)>> }

\* The months setting: not stored, or stored by set_months_back (>= 1).
QueryMonths == {0, 1, 2, 3}

\* The stores: a record and an entry of series_list for each tracked id.
QueryStores ==
    {[k \in {K_series(sid) : sid \in S} \cup (IF S = {} THEN {} ELSE {K_series_list})
             \cup (IF m = 0 THEN {} ELSE {K_months}) |->
         IF k = K_series_list THEN SelectSeq(<<"A", "B">>, LAMBDA sid : sid \in S)
         ELSE IF k = K_months THEN m
         ELSE Entry(k[2], "T1", rec[k[2]][1], rec[k[2]][2])] :
       S \in SUBSET Ids, m \in QueryMonths,
       rec \in [Ids -> QueryData \X Directions]}

Half == <<1, 2>>
\* The weight maps get_composite_df is called with.
QueryWeights ==
    { EmptyMap,
      [sid \in {"A"} |-> One],
      [sid \in {"B"} |-> One],
      [sid \in {"X"} |-> One],
      [sid \in {"A", "B"} |-> Half],
      [sid \in {"A", "X"} |-> Half],
      [sid \in {"A", "B"} |-> IF sid = "A" THEN <<2, 1>> ELSE <<-1, 1>>],
      [sid \in {"A", "date"} |-> Half] }

NoResult ==
    [classifications |-> <<>>, adjusted |-> EmptyMap, combined |-> <<>>,
     raised |-> FALSE, result |-> <<>>]
NoQuery == [op |-> "none", series_id |-> "", weights_dict |-> EmptyMap]

\* A heatmap row is computed.
GetMonthlyClassifications(series_id) ==
    /\ cin' = [NoQuery EXCEPT !.op = "get_monthly_classifications",
                              !.series_id = series_id]
    /\ cout' = [NoResult EXCEPT
                   !.classifications = get_monthly_classifications(db, series_id)]
    /\ UNCHANGED <<db, loc, boot_list, budget, env>>

\* The composite is computed.
GetCompositeDf(weights_dict) ==
    /\ cin' = [NoQuery EXCEPT !.op = "get_composite_df", !.weights_dict = weights_dict]
    /\ LET locals == get_composite_df(db, weights_dict)
       IN  cout' = [NoResult EXCEPT !.adjusted = locals.adjusted,
                                    !.combined = locals.combined,
                                    !.raised = locals.raised,
                                    !.result = locals.result]
    /\ UNCHANGED <<db, loc, boot_list, budget, env>>

InitQueries ==
    /\ db \in QueryStores
    /\ boot_list = Get(db, K_series_list, <<>>)
    /\ loc = [t \in Threads |-> Idle]
    /\ budget = 0
    /\ env = [fetch |-> {}, titles |-> {}, store_faults |-> FALSE]
    /\ cin = NoQuery
    /\ cout = NoResult

NextQueries ==
    \/ \E series_id \in Ids \cup {"X"} : GetMonthlyClassifications(series_id)
    \/ \E weights_dict \in QueryWeights : GetCompositeDf(weights_dict)

SpecQueries == InitQueries /\ [][NextQueries]_vars

(***************************************************************************)
(* The claims.                                                             *)
(***************************************************************************)
RefreshPcs ==
    {"rsd_224", "rsd_232", "rsd_233", "ssd_175", "ssd_178", "ssd_185", "ssd_186", "ssd_189"}
DirectionPcs == {"usd_204", "usd_205", "usd_207"}
AddOps == {"add_series", "api_add_series"}
DirectionOps == {"update_direction", "api_update_direction"}

\* Thread t takes a step of the code it is running.
Moves(t) == loc'[t] # loc[t]

\* The step from l to l2 is the return of refresh_series_data with value r.
RefreshReturns(l, l2, r) ==
    IF l.op \in BatchOps
    THEN /\ Len(l2.attempts) = Len(l.attempts) + 1
         /\ l2.attempts[Len(l2.attempts)].sid = l.sid
         /\ l2.attempts[Len(l2.attempts)].ret = r
    ELSE /\ l2.pc \in {"done", "as_1460"}
         /\ l2.result = r

\* What the fetch of the refresh call gave, seen after the step from l to l2.
FetchedBy(l, l2) ==
    IF l.op \in BatchOps /\ Len(l2.attempts) > Len(l.attempts)
    THEN l2.attempts[Len(l2.attempts)].fetched
    ELSE l2.df

FetchFailed(df) == df.kind = "None" \/ df.rows = <<>>

(* C1: whenever the persisted weight map user_weights is non-empty, its
   values sum to 1. *)
C1_PersistedWeightsSumToOne ==
    (Has(db, K_user_weights) /\ DOMAIN db[K_user_weights] # {})
        => SumValues(db[K_user_weights]) = One

(* C2: a refresh whose fetch gives None or an empty dataset returns False
   and leaves the whole store (series records, series_list, weights, months
   setting) as it was. *)
C2_FailedFetchLeavesStore ==
    [][\A t \in Threads :
          (loc[t].pc = "rsd_224" /\ Moves(t) /\ FetchFailed(FetchedBy(loc[t], loc'[t])))
              => (db' = db /\ RefreshReturns(loc[t], loc'[t], "False"))]_vars

\* A refresh of a stored series has failed at the fetch; the record, the
\* list and the weights are there.
C2_Witness ==
    \E t \in Threads :
        /\ loc[t].pc = "done" /\ loc[t].op \in AddOps
        /\ loc[t].result = "False" /\ FetchFailed(loc[t].df)
        /\ Has(db, K_series(loc[t].sid)) /\ db[K_series(loc[t].sid)].data # <<>>
        /\ Has(db, K_series_list) /\ Has(db, K_user_weights)

\* A refresh (t) and a direction change (u) of the same series have both
\* succeeded, and the store does not hold the result of both.
BothDone(t, u) ==
    /\ t # u
    /\ loc[t].pc = "done" /\ loc[t].op \in AddOps /\ loc[t].result = "True"
    /\ loc[u].pc = "done" /\ loc[u].op \in DirectionOps /\ loc[u].ret = "True"
    /\ loc[t].sid = loc[u].sid
    /\ Has(db, K_series(loc[t].sid))
DirectionLost(t, u) ==
    BothDone(t, u) /\ db[K_series(loc[t].sid)].direction # loc[u].direction
ObservationsLost(t, u) ==
    BothDone(t, u) /\ db[K_series(loc[t].sid)].data # loc[t].df.rows
\* No other handler was started between or after the two.
Consecutive(t, u) ==
    /\ Abs(loc[t].ticket - loc[u].ticket) = 1
    /\ \A w \in Threads : loc[w].ticket <= loc[t].ticket \/ loc[w].ticket <= loc[u].ticket

\* The two handlers ran while each other was running.
Interleaved(t, u) == loc[t].overlapped /\ loc[u].overlapped

(* C3: a refresh and a direction change of the same series lose an update
   only by interleaving: when neither ran while another handler was
   running, the store holds the direction written and the observations
   fetched; interleaved at their store accesses, an update can be lost (the
   witness). *)
C3_LostUpdateOnlyWhenInterleaved ==
    \A t, u \in Threads :
        ((DirectionLost(t, u) \/ ObservationsLost(t, u)) /\ Consecutive(t, u))
            => (loc[t].overlapped \/ loc[u].overlapped)

\* The two were interleaved, both have completed and the direction that the
\* direction change wrote is gone.
C3_Witness ==
    \E t, u \in Threads :
        DirectionLost(t, u) /\ Consecutive(t, u) /\ Interleaved(t, u)

\* The two were interleaved, both have completed and the observations that
\* the refresh fetched are gone.
C3_WitnessObservations ==
    \E t, u \in Threads :
        ObservationsLost(t, u) /\ Consecutive(t, u) /\ Interleaved(t, u)

(* C4: no step of a refresh changes the direction of a record that is
   stored, and when the refresh returns True the record holds the
   observations it fetched. *)
C4_RefreshKeepsDirection ==
    [][\A t \in Threads :
          (loc[t].pc \in RefreshPcs /\ Moves(t) /\ Has(db, K_series(loc[t].sid)))
              => LET k == K_series(loc[t].sid) IN
                 /\ Has(db', k)
                 /\ db'[k].direction = db[k].direction
                 /\ RefreshReturns(loc[t], loc'[t], "True") => db'[k].data = loc[t].df.rows]_vars

\* A series whose direction is 'negative' has been refreshed.
C4_Witness ==
    \E t \in Threads :
        /\ loc[t].pc = "done" /\ loc[t].op \in AddOps /\ loc[t].result = "True"
        /\ Has(db, K_series(loc[t].sid))
        /\ db[K_series(loc[t].sid)].direction = "negative"
        /\ db[K_series(loc[t].sid)].data = loc[t].df.rows

(* C5: no step of a refresh changes the name of a record that is stored,
   whatever the title lookup gives. *)
C5_RefreshKeepsName ==
    [][\A t \in Threads :
          (loc[t].pc \in RefreshPcs /\ Moves(t) /\ Has(db, K_series(loc[t].sid)))
              => /\ Has(db', K_series(loc[t].sid))
                 /\ db'[K_series(loc[t].sid)].name = db[K_series(loc[t].sid)].name]_vars

(* C6: update_series_direction on a stored series changes nothing in the
   store but that record's direction and returns True (when the store write
   itself raises, nothing changes); on a series without a record it returns
   False and changes nothing. *)
C6_DirectionOnly ==
    [][\A t \in Threads :
          (loc[t].pc \in DirectionPcs /\ Moves(t))
              => LET k == K_series(loc[t].sid) IN
                 IF Has(db, k)
                 THEN /\ Has(db', k)
                      /\ db' = [db EXCEPT ![k] = [@ EXCEPT !.direction = db'[k].direction]]
                      /\ loc'[t].pc = "done" =>
                            \/ loc'[t].ret = "True" /\ db'[k].direction = loc[t].direction
                            \/ loc'[t].ret = "raise" /\ env.store_faults /\ db' = db
                      /\ loc'[t].pc # "done" => db' = db
                 ELSE db' = db /\ loc'[t].pc = "done" /\ loc'[t].ret = "False"]_vars

\* The direction of one of two stored series has been set to 'negative'.
C6_Witness ==
    \E t \in Threads :
        /\ loc[t].pc = "done" /\ loc[t].op \in DirectionOps /\ loc[t].ret = "True"
        /\ loc[t].direction = "negative"
        /\ db[K_series(loc[t].sid)].direction = "negative"
        /\ db[K_series(loc[t].sid)].data # <<>>
        /\ \E other \in Ids \ {loc[t].sid} : Has(db, K_series(other))

(* C7: a run of refresh_all_series attempts the ids of the list it read, in
   list order, one attempt each; whatever fails, it goes on (a step is
   always possible until it has returned) and returns having attempted them
   all; success_count is the number of attempts that returned True. *)
C7_BatchAttemptsAll ==
    \A t \in Threads :
        (loc[t].op \in BatchOps /\ loc[t].idx >= 1)
            => LET l == loc[t] IN
               /\ l.series_list = Get(db, K_series_list, <<>>)
               /\ Len(l.attempts) = l.idx - 1
               /\ Len(l.attempts) <= Len(l.series_list)
               /\ \A i \in 1..Len(l.attempts) : l.attempts[i].sid = l.series_list[i]
               /\ l.success_count =
                     Cardinality({i \in 1..Len(l.attempts) : l.attempts[i].ret = "True"})
               /\ Running(t) => ENABLED Step(t)
               /\ l.pc = "done" => (Len(l.attempts) = Len(l.series_list) /\ l.ret = "True")

\* A run over two series has returned: storing the first raised, the
\* second was refreshed all the same.
C7_Witness ==
    \E t \in Threads :
        /\ loc[t].op \in BatchOps /\ loc[t].pc = "done"
        /\ Len(loc[t].attempts) = 2
        /\ loc[t].attempts[1].ret = "False" /\ ~FetchFailed(loc[t].attempts[1].fetched)
        /\ loc[t].attempts[2].ret = "True"
        /\ loc[t].success_count = 1

\* refresh_all_series is being executed by thread t.
InRefreshAll(t) == Running(t) /\ loc[t].op \in BatchOps /\ loc[t].pc # "umb_1066"

(* C8: at no time are two executions of refresh_all_series in progress. *)
C8_OneRefreshAllAtATime ==
    Cardinality({t \in Threads : InRefreshAll(t)}) <= 1

NoSignal(c) ==
    \/ c.prev_value.none
    \/ c.prev_value.v = 0
    \/ Abs(c.value - c.prev_value.v) * 10000 < Abs(c.prev_value.v)

IsGradient(colour) ==
    /\ Len(colour) = 4
    /\ colour[1] = "rgb"
    /\ \A i \in 2..4 : colour[i] \in 0..255

(* C9: classify_value returns the neutral colour exactly when prev is
   absent, prev is zero or the relative change is below 0.0001; otherwise it
   returns an rgb gradient colour, for either direction. *)
C9_NeutralIffNoSignal ==
    \A d \in Directions :
        cout[d] # PENDING
            => /\ cout[d] = GREY <=> NoSignal(cin)
               /\ ~NoSignal(cin) => IsGradient(cout[d])

\* A change of exactly 0.0001 has been classified: it is not neutral.
C9_Witness ==
    /\ cin = [value |-> 10001, prev_value |-> Prev(10000)]
    /\ cout["positive"] = <<"rgb", 143, 237, 143>>
    /\ cout["negative"] # PENDING /\ cout["negative"] # GREY

Between(x, a, b) == (a <= x /\ x <= b) \/ (b <= x /\ x <= a)
OnRamp(colour, from, to) ==
    /\ IsGradient(colour)
    /\ \A i \in 1..3 : Between(colour[i + 1], from[i], to[i])
Favourable(colour) == OnRamp(colour, GreenStart, GreenEnd)
Unfavourable(colour) == OnRamp(colour, RedStart, RedEnd)

(* C10: with prev # 0 and a change at or above the threshold, the colour
   for 'positive' is on the green ramp iff the colour for 'negative' is on
   the red ramp; an increase is green for 'positive' and red for
   'negative', a decrease the reverse. *)
C10_DirectionFlip ==
    (cout["positive"] # PENDING /\ cout["negative"] # PENDING /\ ~NoSignal(cin))
        => /\ Favourable(cout["positive"]) <=> Unfavourable(cout["negative"])
           /\ Favourable(cout["negative"]) <=> Unfavourable(cout["positive"])
           /\ cin.value > cin.prev_value.v
                 => Favourable(cout["positive"]) /\ Unfavourable(cout["negative"])
           /\ cin.value < cin.prev_value.v
                 => Unfavourable(cout["positive"]) /\ Favourable(cout["negative"])

\* 5.0 -> 5.5 (in tenths) has been classified for both directions.
C10_Witness ==
    /\ cin = [value |-> 55, prev_value |-> Prev(50)]
    /\ Unfavourable(cout["negative"])
    /\ Favourable(cout["positive"])

\* The query answered is get_monthly_classifications / get_composite_df.
AskedClassifications == cin.op = "get_monthly_classifications"
AskedComposite == cin.op = "get_composite_df"

ValueAt(data, m) == (CHOOSE r \in Range(data) : r.date = m).value
\* The value of the latest observation before month m.
PrecedingValue(data, m) ==
    LET earlier == {r \in Range(data) : r.date < m}
    IN  (CHOOSE r \in earlier : \A q \in earlier : q.date <= r.date).value
\* The months among the w latest of the set ds.
Latest(ds, w) == {m \in ds : Cardinality({x \in ds : x > m}) < w}
IsNeutral(c) == c = GREY \/ c = NAMED_GREY

(* C11: in the sequence get_monthly_classifications returns, the first
   entry is neutral and every later entry is classify_value of the value of
   its month, the value of the observation just before it in the stored
   history by date, and the stored direction. *)
C11_FirstNeutralRestClassified ==
    (AskedClassifications /\ Has(db, K_series(cin.series_id)))
        => LET e == db[K_series(cin.series_id)]
               cs == cout.classifications
           IN  \A i \in 1..Len(cs) :
                   IF i = 1 THEN IsNeutral(cs[i].c)
                   ELSE cs[i].c = classify_value(ValueAt(e.data, cs[i].month),
                                                 Prev(PrecedingValue(e.data, cs[i].month)),
                                                 e.direction)

\* A positive series 100, 100, 110 with window 3: neutral, neutral, favourable.
C11_Witness ==
    /\ AskedClassifications
    /\ Has(db, K_series(cin.series_id))
    /\ db[K_series(cin.series_id)].direction = "positive"
    /\ db[K_series(cin.series_id)].data = <<Obs(1, 100), Obs(2, 100), Obs(3, 110)>>
    /\ get_months_back(db) = 3
    /\ Len(cout.classifications) = 3
    /\ IsNeutral(cout.classifications[1].c)
    /\ IsNeutral(cout.classifications[2].c)
    /\ Favourable(cout.classifications[3].c)

(* C12: for a stored series with n observations and window w >= 1 the
   sequence has min(n, w) entries, one for each of the w latest stored
   months and for no other month, in ascending date order whatever the
   order of the stored list; for an id without a record it is empty. *)
C12_OneEntryPerStoredMonth ==
    AskedClassifications
        => LET cs == cout.classifications
               k == K_series(cin.series_id)
           IN  IF ~Has(db, k) THEN cs = <<>>
               ELSE LET ds == Dates(db[k].data)
                        w == get_months_back(db)
                    IN  w >= 1 =>
                        /\ Len(cs) = Min(Len(db[k].data), w)
                        /\ \A i \in 1..(Len(cs) - 1) : cs[i].month < cs[i + 1].month
                        /\ {cs[i].month : i \in 1..Len(cs)} = Latest(ds, w)

\* Three observations and window 2: the entries of the two latest months.
C12_Witness ==
    /\ AskedClassifications
    /\ Has(db, K_series(cin.series_id))
    /\ db[K_series(cin.series_id)].data = <<Obs(1, 100), Obs(2, 100), Obs(3, 110)>>
    /\ get_months_back(db) = 2
    /\ Len(cout.classifications) = 2
    /\ cout.classifications[1].month = 2
    /\ cout.classifications[2].month = 3

\* The ids of the weight map that have a stored record.
Weighted == {sid \in DOMAIN cin.weights_dict : Has(db, K_series(sid))}
FirstValue(data) == ValueAt(data, CHOOSE m \in Dates(data) : \A x \in Dates(data) : m <= x)

\* a = n/d is the adjusted value of v for first value v0.
IsAdjusted(a, v, v0, direction) ==
    /\ a[2] > 0
    /\ IF v0 # 0
       THEN IF direction = "positive"
            THEN a[1] * Abs(v0) = a[2] * ((v - v0) + Abs(v0))
            ELSE a[1] * Abs(v0) = a[2] * (Abs(v0) - (v - v0))
       ELSE IF direction = "positive" THEN a = <<v, 1>> ELSE a = <<-v, 1>>

(* C13: the adjusted value of v in a series with first value v0 (by date)
   is (v - v0)/|v0| + 1 for positive and -(v - v0)/|v0| + 1 for negative
   when v0 # 0, and v resp. -v when v0 = 0. *)
C13_AdjustedValue ==
    AskedComposite
        => /\ DOMAIN cout.adjusted = Weighted
           /\ \A sid \in Weighted :
                 LET e == db[K_series(sid)]
                     adj == cout.adjusted[sid]
                 IN  /\ Len(adj) = Len(e.data)
                     /\ \A i \in 1..Len(adj) :
                           /\ adj[i].date \in Dates(e.data)
                           /\ IsAdjusted(adj[i].value, ValueAt(e.data, adj[i].date),
                                         FirstValue(e.data), e.direction)

\* A negative series that starts at 0 and goes to 5: adjusted 0 and -5.
C13_Witness ==
    /\ AskedComposite
    /\ \E sid \in Weighted :
          /\ db[K_series(sid)].direction = "negative"
          /\ db[K_series(sid)].data = <<Obs(1, 0), Obs(3, 5)>>
          /\ cout.adjusted[sid] = <<[date |-> 1, value |-> <<0, 1>>],
                                    [date |-> 3, value |-> <<-5, 1>>]>>

(* C14: for two raw values a < b of a series the adjusted value of b is
   greater than that of a when the direction is positive and smaller when
   it is negative, whatever the sign of the first value. *)
C14_ImprovementIncreases ==
    AskedComposite
        => \A sid \in Weighted :
              LET e == db[K_series(sid)]
                  adj == cout.adjusted[sid]
              IN  \A i, j \in 1..Len(adj) :
                      ValueAt(e.data, adj[i].date) < ValueAt(e.data, adj[j].date)
                          => IF e.direction = "positive"
                             THEN RLess(adj[i].value, adj[j].value)
                             ELSE RLess(adj[j].value, adj[i].value)

\* A positive series with a negative first value, -50 then -40: 1 then 6/5.
C14_Witness ==
    /\ AskedComposite
    /\ \E sid \in Weighted :
          /\ db[K_series(sid)].direction = "positive"
          /\ db[K_series(sid)].data = <<Obs(2, -50), Obs(4, -40)>>
          /\ cout.adjusted[sid][1].value = One
          /\ cout.adjusted[sid][2].value = <<6, 5>>

(* C15 as stated: the adjusted value at the first observation of every
   series is 1. *)
C15_StartsAtOne ==
    AskedComposite
        => \A sid \in Weighted : cout.adjusted[sid][1].value = One

(* C15: the adjusted value at the first observation of a series is 1 when
   its first value is not 0, and 0 when its first value is 0, for either
   direction. *)
C15_StartsAtOneUnlessZero ==
    AskedComposite
        => \A sid \in Weighted :
              cout.adjusted[sid][1].value =
                  IF FirstValue(db[K_series(sid)].data) # 0 THEN One ELSE Zero

\* Two series, one starting at 0 and one starting at 50.
C15_Witness ==
    /\ AskedComposite
    /\ \E sid, other \in Weighted :
          /\ FirstValue(db[K_series(sid)].data) = 0
          /\ cout.adjusted[sid][1].value = Zero
          /\ FirstValue(db[K_series(other)].data) = 50
          /\ db[K_series(other)].direction = "negative"
          /\ cout.adjusted[other][1].value = One

\* The adjusted value a series has at or last had before month m; 0 before
\* its first observation.
LastKnown(adj, m) ==
    LET seen == {r \in Range(adj) : r.date <= m}
    IN  IF seen = {} THEN Zero
        ELSE (CHOOSE r \in seen : \A q \in seen : q.date <= r.date).value

(* C16: the table built before truncation has one row per date of the union
   of the dates of the weighted series that have data; a series' cell holds
   its own adjusted value at a date it observes, else its adjusted value at
   its latest earlier date, else 0. *)
C16_AlignedTable ==
    AskedComposite
        => LET tbl == cout.combined
               union == UNION {Dates(db[K_series(sid)].data) : sid \in Weighted}
           IN  /\ {tbl[i].date : i \in 1..Len(tbl)} = union
               /\ Len(tbl) = Cardinality(union)
               /\ \A i \in 1..Len(tbl) :
                     /\ DOMAIN tbl[i].cols = Weighted
                     /\ \A sid \in Weighted :
                           tbl[i].cols[sid] = LastKnown(cout.adjusted[sid], tbl[i].date)

\* A observes months 2 and 4, B months 1, 2, 3: A is 0 at month 1 and keeps
\* its value of month 2 at month 3; B keeps its value of month 3 at month 4.
C16_Witness ==
    /\ AskedComposite
    /\ Weighted = {"A", "B"}
    /\ Dates(db[K_series("A")].data) = {2, 4}
    /\ db[K_series("B")].data = <<Obs(1, 100), Obs(2, 100), Obs(3, 110)>>
    /\ db[K_series("B")].direction = "positive"
    /\ Len(cout.combined) = 4
    /\ cout.combined[1].cols["A"] = Zero
    /\ cout.combined[3].cols["A"] = One
    /\ cout.combined[4].cols["B"] = <<11, 10>>

\* What the id sid adds to the composite of the table row.
Contribution(sid, row) ==
    IF sid \in Weighted THEN RMul(cin.weights_dict[sid], row.cols[sid]) ELSE Zero

(* C17: each composite point is the sum over the ids of the weight map of
   weight times aligned adjusted value at that date; an id of the map
   without stored data and a stored series without a weight add 0. *)
C17_WeightedSum ==
    AskedComposite
        => \A i \in 1..Len(cout.result) :
              LET point == cout.result[i]
                  row == CHOOSE r \in Range(cout.combined) : r.date = point.date
              IN  /\ point.date \in Dates(cout.combined)
                  /\ point.composite_value =
                        RAdd(Contribution("A", row),
                             RAdd(Contribution("B", row), Contribution("X", row)))

\* A positive 100, 110 and B negative 50, 45 with weights 1/2: 1 and 11/10.
C17_Witness ==
    /\ AskedComposite
    /\ cin.weights_dict = [sid \in {"A", "B"} |-> Half]
    /\ Weighted = {"A", "B"}
    /\ db[K_series("A")] = Entry("A", "T1", <<Obs(2, 100), Obs(3, 110)>>, "positive")
    /\ db[K_series("B")] = Entry("B", "T1", <<Obs(2, 50), Obs(3, 45)>>, "negative")
    /\ cout.result = <<[date |-> 2, composite_value |-> One],
                       [date |-> 3, composite_value |-> <<11, 10>>]>>

\* The store without the months setting: the window is the default 60.
Untruncated == [k \in DOMAIN db \ {K_months} |-> db[k]]

(* C18: the rows a call returns are in ascending date order and are the
   last w rows of the composite computed on the whole table (all of them
   when there are no more than w). *)
C18_TruncatedAfterSumming ==
    (AskedComposite /\ ~cout.raised)
        => LET res == cout.result
               full == get_composite_df(Untruncated, cin.weights_dict).result
               w == get_months_back(db)
           IN  /\ Len(full) = Len(cout.combined)
               /\ Len(res) = Min(Len(full), w)
               /\ \A i \in 1..(Len(res) - 1) : res[i].date < res[i + 1].date
               /\ \A i \in 1..Len(res) : res[i] = full[Len(full) - Len(res) + i]

\* Window 1 over four months: the one row returned, month 4, holds B's value
\* of month 3 (1.1/2) plus A's of month 4 (1.2/2).
C18_Witness ==
    /\ AskedComposite
    /\ cin.weights_dict = [sid \in {"A", "B"} |-> Half]
    /\ get_months_back(db) = 1
    /\ Weighted = {"A", "B"}
    /\ db[K_series("A")] = Entry("A", "T1", <<Obs(2, -50), Obs(4, -40)>>, "positive")
    /\ db[K_series("B")] = Entry("B", "T1", <<Obs(1, 100), Obs(2, 100), Obs(3, 110)>>, "positive")
    /\ Len(cout.combined) = 4
    /\ cout.result = <<[date |-> 4, composite_value |-> <<23, 20>>]>>

\* What the normalisation of the raw map is to give for the tracked ids.
NormalizedWeights(raw, series_list) ==
    LET total == SumValues(raw) IN
    IF RLess(Zero, total)
    THEN [k \in DOMAIN raw |-> RMul(raw[k], <<total[2], total[1]>>)]
    ELSE equal_weights(series_list)

(* C19: a save through either entry point persists raw/sum for every entry
   when the sum of the raw values is > 0, and 1/n for each of the n tracked
   ids when the sum is 0. *)
C19_NormalizedOnSave ==
    [][\A t \in Threads :
          LET series_list == Get(db, K_series_list, <<>>) IN
          /\ \A weights \in ApiWeightInputs :
                (/\ ApiSaveWeights(t, weights)
                 /\ series_list # <<>>
                 /\ ~RLess(SumValues(weights), Zero))
                    => /\ Has(db', K_user_weights)
                       /\ db'[K_user_weights] = NormalizedWeights(weights, series_list)
          /\ \A weight_values \in Tuples(DashWeightInputs, Len(boot_list)) :
                LET raw == [i \in 1..Len(weight_values) |-> to_float(weight_values[i])] IN
                (/\ UpdateComposite(t, "save-weights-btn", weight_values)
                 /\ series_list # <<>>
                 /\ ~RLess(SumSeq(raw), Zero))
                    => /\ Has(db', K_user_weights)
                       /\ db'[K_user_weights] =
                             IF RLess(Zero, SumSeq(raw))
                             THEN zip_dict(series_list,
                                           [i \in 1..Len(raw) |->
                                               RMul(raw[i], <<SumSeq(raw)[2], SumSeq(raw)[1]>>)])
                             ELSE equal_weights(series_list)]_vars

(* C20: every value of the persisted weight map is non-negative. *)
C20_WeightsNonNegative ==
    Has(db, K_user_weights)
        => \A k \in DOMAIN db[K_user_weights] : ~RLess(db[K_user_weights][k], Zero)

\* What is stored under user_weights, if anything.
StoredWeights(d) == <<Has(d, K_user_weights), load_weights(d)>>
Tracked(d) == Range(Get(d, K_series_list, <<>>))
NoWeightsYet(d) == load_weights(d) = EmptyMap /\ Tracked(d) # {}

\* Thread t ran a whole handler in this step.
Served(t) == loc'[t].pc = "done" /\ loc'[t].ticket # loc[t].ticket

\* The handler was a view of the composite: GET /api/composite or the load
\* of the /composite page.
ViewedBy(t) ==
    /\ Served(t)
    /\ \/ loc'[t].op = "api_composite"
       \/ /\ loc'[t].op = "update_composite"
          /\ \/ loc'[t].resp \in {"", "No data to display in composite."}
             \/ loc'[t].ret = "raise"

\* The handler was a save or a reset of the weights.
SavedOrResetBy(t) ==
    /\ Served(t)
    /\ \/ loc'[t].op \in {"api_save_weights", "api_reset_weights"}
       \/ /\ loc'[t].op = "update_composite"
          /\ loc'[t].resp \in {"Weights reset to equal values.",
                               "Weights reset to equal. (No data available)",
                               "Weights saved successfully.",
                               "Weights saved. (No data available)"}

\* C21: a view of the composite made while no weights are stored and a series
\* is tracked stores the weight 1/n for each of the n tracked ids; and the
\* stored map changes in no step other than such a view, a save or a reset:
\* a registration, a refresh, a direction change, a months update and a later
\* view leave it as it is.
C21_WeightsCreatedOnceThenKept ==
    [][ /\ \A t \in Threads :
             ViewedBy(t) /\ NoWeightsYet(db) =>
                 /\ Has(db', K_user_weights)
                 /\ DOMAIN load_weights(db') = Tracked(db)
                 /\ \A sid \in Tracked(db) :
                       RMul(load_weights(db')[sid], <<Cardinality(Tracked(db)), 1>>) = One
        /\ StoredWeights(db') # StoredWeights(db) =>
             \E t \in Threads :
                 \/ SavedOrResetBy(t)
                 \/ ViewedBy(t) /\ NoWeightsYet(db) ]_vars

\* The third handler served was a view that found two series tracked and no
\* weights, and a half is stored for each.
C21_Witness ==
    \E t \in Threads :
        /\ loc[t].pc = "done"
        /\ loc[t].op \in {"api_composite", "update_composite"}
        /\ loc[t].resp \in {"200", ""}
        /\ loc[t].ticket = 3
        /\ Tracked(db) = Ids
        /\ load_weights(db) = [sid \in Ids |-> Half]

\* C22: every key of the stored weight map is the id of a tracked series: a
\* save that names an untracked id stores nothing.
C22_WeightKeysTracked ==
    DOMAIN load_weights(db) \subseteq Tracked(db)

Quiescent == \A t \in Threads : ~Running(t)
Listed(d, sid) == InList(sid, Get(d, K_series_list, <<>>))

\* C23: a registration or refresh that failed after its fetch succeeded left
\* no partial write: the store does not hold a record of the series while
\* series_list lacks its id.
C23_NoPartialWrite ==
    \A t \in Threads :
        (/\ loc[t].pc = "done" /\ loc[t].op \in AddOps
         /\ loc[t].result = "False" /\ ~FetchFailed(loc[t].df))
            => ~(Has(db, K_series(loc[t].sid)) /\ ~Listed(db, loc[t].sid))

\* C24: get_monthly_classifications and get_composite_df return without
\* raising, whatever the store holds and whatever weight map is passed.
C24_QueriesNeverRaise ==
    (AskedClassifications \/ AskedComposite) => ~cout.raised

MonthsOps == {"update_months_back", "api_update_months_back"}
StoredMonths(d) == <<Has(d, K_months), Get(d, K_months, 0)>>

\* Thread t called set_months_back in this step (the handler did not reject
\* the value first), with the value loc'[t].months.
SetMonthsCalled(t) ==
    /\ loc'[t].ticket # loc[t].ticket
    /\ loc'[t].op \in MonthsOps
    /\ loc'[t].result # "none"

\* C25: the stored months setting is an integer of at least 1, and
\* get_months_back is 60 while there is none; a call of set_months_back with
\* a number stores that number, or 1 when it is below 1, and returns True; a
\* call that returns False (the value does not convert, or the write failed)
\* leaves the setting as it was.
C25_MonthsAtLeastOne ==
    [][ /\ Has(db', K_months) => (db'[K_months] \in Nat /\ db'[K_months] >= 1)
        /\ ~Has(db', K_months) => get_months_back(db') = 60
        /\ \A t \in Threads :
             SetMonthsCalled(t) =>
                LET v == loc'[t].months IN
                /\ loc'[t].result = "True" =>
                      /\ v.kind = "int"
                      /\ Has(db', K_months)
                      /\ db'[K_months] = IF v.n < 1 THEN 1 ELSE v.n
                /\ loc'[t].result = "False" => StoredMonths(db') = StoredMonths(db)
                /\ v.kind # "int" => loc'[t].result = "False" ]_vars

\* set_months_back was called with -1 and returned True: 1 is stored.
C25_Witness ==
    \E t \in Threads :
        /\ loc[t].op \in MonthsOps
        /\ loc[t].months = NumIn(-1)
        /\ loc[t].result = "True"
        /\ db[K_months] = 1

\* C26: when no handler is running, series_list has no duplicates and an id
\* is in it exactly when a record of the series is stored.
C26_ListMatchesRecords ==
    Quiescent =>
        LET series_list == Get(db, K_series_list, <<>>) IN
        /\ \A i, j \in 1..Len(series_list) : series_list[i] = series_list[j] => i = j
        /\ \A sid \in Ids : Listed(db, sid) <=> Has(db, K_series(sid))

\* C27: two registrations of different series that overlapped and both
\* succeeded leave both ids in series_list.
C27_NoRegistrationLost ==
    \A t, u \in Threads :
        (/\ loc[t].pc = "done" /\ loc[u].pc = "done"
         /\ loc[t].op \in AddOps /\ loc[u].op \in AddOps
         /\ loc[t].sid # loc[u].sid
         /\ loc[t].result = "True" /\ loc[u].result = "True")
            => (Listed(db, loc[t].sid) /\ Listed(db, loc[u].sid))

\* C28: every stored record holds at least one observation.
C28_RecordsNotEmpty ==
    \A sid \in Ids :
        Has(db, K_series(sid)) => Len(db[K_series(sid)].data) >= 1

\* A registration fetched an empty dataset and returned False: no record of
\* that series is stored, next to the record of another one.
C28_Witness ==
    \E t \in Threads :
        /\ loc[t].pc = "done" /\ loc[t].op \in AddOps
        /\ loc[t].df = Frame(<<>>) /\ loc[t].result = "False"
        /\ ~Has(db, K_series(loc[t].sid))
        /\ \E other \in Ids \ {loc[t].sid} : Has(db, K_series(other))

\* C29: every classification of get_monthly_classifications is '#6c757d' or
\* an rgb gradient colour: the first entry of the window carries the same
\* neutral as classify_value returns.
C29_OneNeutral ==
    AskedClassifications =>
        \A i \in 1..Len(cout.classifications) :
            \/ cout.classifications[i].c = GREY
            \/ IsGradient(cout.classifications[i].c)

\* C30: a run of refresh_all_series in which an attempt returned False
\* returns False, and its caller answers that some series failed.
C30_FailureReported ==
    \A t \in Threads :
        (/\ loc[t].pc = "done"
         /\ loc[t].op \in {"refresh_all_button", "api_refresh_all"}
         /\ \E i \in 1..Len(loc[t].attempts) : loc[t].attempts[i].ret = "False")
            => /\ loc[t].ret = "False"
               /\ loc[t].resp \in {"Some series failed to refresh.",
                                  "400 Some series failed to refresh"}
====
